---------------------------- MODULE Spec2Model ----------------------------
(***************************************************************************)
(* Model of private-journal-mcp: the journal writer (src/journal.ts), the  *)
(* search service (src/search.ts), the server and its tool handlers        *)
(* (src/server.ts), the embedding service they share (src/embeddings.ts)   *)
(* and the path resolvers (src/paths.ts).                                  *)
(*                                                                         *)
(* The specifications share the variables:                                 *)
(*   SpecEmbed   - concurrent generateEmbedding calls against the lazily   *)
(*                 initialised model of the embedding service;             *)
(*   Spec        - writeEntry / process_thoughts / reconcile (that is,     *)
(*                 generateMissingEmbeddings)                              *)
(*                 acting on the two journal roots on disk;                *)
(*   SpecSearch  - search / listRecent over roots holding any sidecars;    *)
(*   SpecQuery   - the journal of Spec read by one search, listRecent or   *)
(*                 readEntry;                                              *)
(*   SpecScan    - the loads of a search taken step by step under writes;  *)
(*   SpecExcerpt - generateExcerpt on one text;                            *)
(*   SpecPaths   - the resolvers in one environment.                       *)
(***************************************************************************)
EXTENDS Integers, Sequences, FiniteSets, TLC

VARIABLES
    extractor,          \* embeddings.ts: the loaded model (TRUE once loaded)
    initPromise,        \* embeddings.ts: the in-flight initialization, if any
    pc,                 \* position of every caller of generateEmbedding
    awaited,            \* the initialization attempt a caller last awaited
    callsMade,          \* number of generateEmbedding calls a caller has issued
    loadCalls,          \* number of times the model loader was invoked
    loadFailures,       \* number of loader invocations that failed
    projectJournalPath, \* JournalManager / SearchService: project root
    userJournalPath,    \* JournalManager / SearchService: user root
    files,              \* the file system: path -> content, for existing files
    dirs,               \* the file system: existing directories
    now,                \* the clock (ms), read by new Date()
    op                  \* the last operation, its inputs and what it returned

engineVars == <<extractor, initPromise, pc, awaited, callsMade, loadCalls, loadFailures>>
diskVars == <<projectJournalPath, userJournalPath, files, dirs, now>>
vars == <<extractor, initPromise, pc, awaited, callsMade, loadCalls, loadFailures,
          projectJournalPath, userJournalPath, files, dirs, now, op>>

(***************************************************************************)
(* Bounds                                                                  *)
(***************************************************************************)
NCallers == 2
MaxCalls == 2
MaxLoadFailures == 2

Callers == 1..NCallers

NoOp == [name |-> "none"]

(***************************************************************************)
(* EmbeddingService: lazily initialised singleton model                    *)
(***************************************************************************)
InitEngine ==
    /\ extractor = FALSE
    /\ initPromise = "none"
    /\ pc = [c \in Callers |-> "idle"]
    /\ awaited = [c \in Callers |-> 0]
    /\ callsMade = [c \in Callers |-> 0]
    /\ loadCalls = 0
    /\ loadFailures = 0

\* initialize(): share the pending initialization, or start one
initialize_NoShare(c) ==
    /\ initPromise' = "pending"
    /\ loadCalls' = loadCalls + 1
    /\ awaited' = [awaited EXCEPT ![c] = loadCalls + 1]

initialize(c) ==
    IF initPromise = "pending"
    THEN /\ awaited' = [awaited EXCEPT ![c] = loadCalls]
         /\ UNCHANGED <<initPromise, loadCalls>>
    ELSE /\ initPromise' = "pending"
         /\ loadCalls' = loadCalls + 1
         /\ awaited' = [awaited EXCEPT ![c] = loadCalls + 1]

\* generateEmbedding(text), up to its first suspension point
generateEmbedding(c) ==
    /\ pc[c] = "idle"
    /\ callsMade[c] < MaxCalls
    /\ callsMade' = [callsMade EXCEPT ![c] = @ + 1]
    /\ IF extractor
       THEN /\ pc' = [pc EXCEPT ![c] = "infer"]
            /\ UNCHANGED <<initPromise, loadCalls, awaited>>
       ELSE /\ pc' = [pc EXCEPT ![c] = "awaitInit"]
            /\ initialize(c)
    /\ UNCHANGED <<extractor, loadFailures>>

\* the loader resolves: the model is kept, every awaiting caller goes on
LoadResolved ==
    /\ initPromise = "pending"
    /\ extractor' = TRUE
    /\ initPromise' = "resolved"
    /\ pc' = [c \in Callers |-> IF pc[c] = "awaitInit" THEN "infer" ELSE pc[c]]
    /\ UNCHANGED <<awaited, callsMade, loadCalls, loadFailures>>

\* the loader rejects: every awaiting caller fails, the failure is not kept
LoadRejected_Cached ==
    /\ initPromise = "pending"
    /\ loadFailures < MaxLoadFailures
    /\ loadFailures' = loadFailures + 1
    /\ initPromise' = "pending"
    /\ pc' = [c \in Callers |-> IF pc[c] = "awaitInit" THEN "failed" ELSE pc[c]]
    /\ UNCHANGED <<extractor, awaited, callsMade, loadCalls>>

LoadRejected ==
    /\ initPromise = "pending"
    /\ loadFailures < MaxLoadFailures
    /\ loadFailures' = loadFailures + 1
    /\ initPromise' = "none"
    /\ pc' = [c \in Callers |-> IF pc[c] = "awaitInit" THEN "failed" ELSE pc[c]]
    /\ UNCHANGED <<extractor, awaited, callsMade, loadCalls>>

\* the model runs on the text: the call returns a vector, or the inference throws
Infer(c) ==
    /\ pc[c] = "infer"
    /\ \E ok \in BOOLEAN : pc' = [pc EXCEPT ![c] = IF ok THEN "done" ELSE "failed"]
    /\ UNCHANGED <<extractor, initPromise, awaited, callsMade, loadCalls, loadFailures>>

\* the caller has its answer and may call again
Return(c) ==
    /\ pc[c] \in {"done", "failed"}
    /\ pc' = [pc EXCEPT ![c] = "idle"]
    /\ UNCHANGED <<extractor, initPromise, awaited, callsMade, loadCalls, loadFailures>>

(***************************************************************************)
(* The disk: paths, note files and sidecar files                           *)
(***************************************************************************)
MaxSec == 0
MaxMs == 1
MaxRand == 1
MaxNotes == 2
MaxFaults == 1

MsPerSecond == 1000
MicrosPerMs == 1000
MsPerDay == 86400000

\* the instants the clock may show
Instants == {s * MsPerSecond + m : s \in 0..MaxSec, m \in 0..MaxMs}

ProjectRoot == "/proj/.private-journal"
HomeRoot == "/home/.private-journal"

\* a file path: <root>/<dir>/<base>.<ext>
\*   dir  is <<"date", day>> for a YYYY-MM-DD name, <<"other", n>> for any other name
\*   base is <<"time", secondOfDay, micros>> for HH-MM-SS-uuuuuu, <<"other", n, 0>> otherwise
Path(root, dir, base, ext) == [root |-> root, dir |-> dir, base |-> base, ext |-> ext]

\* dayDir.match(/^\d{4}-\d{2}-\d{2}$/)
IsDateDir(dir) == dir[1] = "date"

\* mdPath.replace(/\.md$/, '.embedding')
EmbeddingPath(p) == IF p.ext = "md" THEN [p EXCEPT !.ext = "embedding"] ELSE p

NotePath(p) == [p EXCEPT !.ext = "md"]

Put(f, k, v) == [x \in (DOMAIN f) \cup {k} |-> IF x = k THEN v ELSE f[x]]

MdFiles(fs) == {p \in DOMAIN fs : p.ext = "md"}
EmbeddingFiles(fs) == {p \in DOMAIN fs : p.ext = "embedding"}

\* lines of a note: a heading "## <label>", a line of text, an empty line
Heading(label) == [k |-> "h", v |-> label]
TextLine(s) == [k |-> "t", v |-> s]
EmptyLine == [k |-> "e", v |-> ""]

\* a JavaScript string of the inputs: undefined, "", " " or a word
Undefined == "undefined"
IsWhitespace(s) == s \in {"", " "}
Truthy(s) == s \notin {Undefined, ""}

\* the lines of a one-line string ("" is one empty line)
Lines(s) == IF s = "" THEN <<EmptyLine>> ELSE <<TextLine(s)>>

NoFrontmatter == -1

formatDate(t) == <<"date", t \div MsPerDay>>

formatTimestamp(t, r) ==
    <<"time", (t % MsPerDay) \div MsPerSecond, (t % MsPerSecond) * MicrosPerMs + r>>

\* the note text: frontmatter with the timestamp, an empty line, the content
formatEntry(content, t) ==
    [kind |-> "note", timestamp |-> t, lines |-> <<EmptyLine>> \o Lines(content)]

Categories == <<"feelings", "project_notes", "user_context", "technical_insights", "world_knowledge">>

SectionLabel(cat) ==
    CASE cat = "feelings" -> "Feelings"
      [] cat = "project_notes" -> "Project Notes"
      [] cat = "user_context" -> "User Context"
      [] cat = "technical_insights" -> "Technical Insights"
      [] cat = "world_knowledge" -> "World Knowledge"

RECURSIVE ThoughtSections(_, _)
ThoughtSections(thoughts, i) ==
    IF i > Len(Categories) THEN <<>>
    ELSE LET cat == Categories[i]
             rest == ThoughtSections(thoughts, i + 1)
         IN  IF Truthy(thoughts[cat])
             THEN <<<<Heading(SectionLabel(cat)), EmptyLine>> \o Lines(thoughts[cat])>> \o rest
             ELSE rest

\* sections.join('\n\n')
RECURSIVE JoinSections(_)
JoinSections(secs) ==
    IF secs = <<>> THEN <<EmptyLine>>
    ELSE IF Len(secs) = 1 THEN secs[1]
    ELSE secs[1] \o <<EmptyLine>> \o JoinSections(Tail(secs))

formatThoughts(thoughts, t) ==
    [kind |-> "note", timestamp |-> t,
     lines |-> <<EmptyLine>> \o JoinSections(ThoughtSections(thoughts, 1))]

(***************************************************************************)
(* EmbeddingService: text extraction, the model's output, saving           *)
(***************************************************************************)
RECURSIVE CollapseEmpty(_)
CollapseEmpty(ls) ==
    IF Len(ls) < 2 THEN ls
    ELSE IF ls[1].k = "e" /\ ls[2].k = "e" THEN CollapseEmpty(Tail(ls))
    ELSE <<ls[1]>> \o CollapseEmpty(Tail(ls))

IsBlankLine(l) == l.k = "e" \/ (l.k = "t" /\ IsWhitespace(l.v))

RECURSIVE TrimStart(_)
TrimStart(ls) ==
    IF ls = <<>> THEN ls
    ELSE IF IsBlankLine(ls[1]) THEN TrimStart(Tail(ls)) ELSE ls

RECURSIVE TrimEnd(_)
TrimEnd(ls) ==
    IF ls = <<>> THEN ls
    ELSE IF IsBlankLine(ls[Len(ls)]) THEN TrimEnd(SubSeq(ls, 1, Len(ls) - 1)) ELSE ls

IsHeading(l) == l.k = "h"

\* extractSearchableText(markdown): the frontmatter is dropped, the heading
\* lines give the sections and are blanked, runs of empty lines collapse,
\* the text is trimmed
extractSearchableText(content) ==
    LET headings == SelectSeq(content.lines, IsHeading)
        blanked == [i \in 1..Len(content.lines) |->
                      IF IsHeading(content.lines[i]) THEN EmptyLine ELSE content.lines[i]]
        body == TrimEnd(TrimStart(CollapseEmpty(blanked)))
    IN  [text |-> [i \in 1..Len(body) |-> body[i].v],
         sections |-> [i \in 1..Len(headings) |-> headings[i].v]]

\* the vector the model gives for a text (unit length, scaled by 5)
ModelOutput(text) ==
    IF text = <<>> THEN <<5, 0>>
    ELSE IF text[1] = "a" THEN <<3, 4>>
    ELSE IF text[1] = "b" THEN <<4, 3>>
    ELSE <<0, 5>>

\* saveEmbedding(filePath, data): the sidecar written next to the note
saveEmbedding(fs, filePath, data) == Put(fs, EmbeddingPath(filePath), data)

EmbeddingData_SidecarPath(embedding, text, sections, timestamp, path) ==
    [kind |-> "record", embedding |-> embedding, text |-> text, sections |-> sections,
     timestamp |-> timestamp, path |-> EmbeddingPath(path), type |-> "none"]

\* the embeddingData of generateEmbeddingForEntry: path is the note's path
EmbeddingData(embedding, text, sections, timestamp, path) ==
    [kind |-> "record", embedding |-> embedding, text |-> text, sections |-> sections,
     timestamp |-> timestamp, path |-> path, type |-> "none"]

(***************************************************************************)
(* JournalManager                                                          *)
(***************************************************************************)
\* generateEmbeddingForEntry(filePath, content, timestamp): the disk afterwards.
\* fault is what goes wrong inside it: "none", "embed" or "save"; it never throws.
generateEmbeddingForEntry(fs, filePath, content, timestamp, fault) ==
    LET ex == extractSearchableText(content)
    IN  IF ex.text = <<>> THEN fs
        ELSE IF fault \in {"embed", "save"} THEN fs
        ELSE saveEmbedding(fs, filePath,
                 EmbeddingData(ModelOutput(ex.text), ex.text, ex.sections, timestamp, filePath))

\* the catch of generateEmbeddingForEntry (lines 207-210): what generateEmbedding
\* or saveEmbedding threw is logged and not thrown again
CatchEmbeddingError_Rethrow(fault) == fault

CatchEmbeddingError(fault) == "none"

\* what generateEmbeddingForEntry throws to the write that called it
EmbeddingThrown(content, fault) ==
    IF extractSearchableText(content).text = <<>> THEN "none" ELSE CatchEmbeddingError(fault)

\* ensureDirectoryExists(dirPath): mkdir -p
ensureDirectoryExists(ds, root, dir) == ds \cup {<<root>>, <<root, dir>>}

NoteCount == Cardinality(MdFiles(files))

WriteFaults == {"none", "embed", "save"}

\* writeEntry(content) at instant t, with r the random part of the file name
writeEntry(content, t, r, fault) ==
    LET dateString == formatDate(t)
        filePath == Path(projectJournalPath, dateString, formatTimestamp(t, r), "md")
        formattedEntry == formatEntry(content, t)
        written == Put(files, filePath, formattedEntry)
    IN  /\ NoteCount < MaxNotes
        /\ t >= now
        /\ now' = t
        /\ dirs' = ensureDirectoryExists(dirs, projectJournalPath, dateString)
        /\ files' = generateEmbeddingForEntry(written, filePath, formattedEntry, t, fault)
        /\ op' = [name |-> "writeEntry", paths |-> {filePath}, faults |-> {fault} \ {"none"},
                  failed |-> IF fault = "none" THEN {} ELSE {<<filePath, formattedEntry>>},
                  thrown |-> EmbeddingThrown(formattedEntry, fault)]
        /\ UNCHANGED <<projectJournalPath, userJournalPath>>

\* writeThoughtsToLocation(thoughts, timestamp, basePath): the disk afterwards
writeThoughtsToLocation(fs, thoughts, t, r, basePath, fault) ==
    LET filePath == Path(basePath, formatDate(t), formatTimestamp(t, r), "md")
        formattedEntry == formatThoughts(thoughts, t)
    IN  generateEmbeddingForEntry(Put(fs, filePath, formattedEntry), filePath, formattedEntry, t, fault)

NoThoughts == [c \in {Categories[i] : i \in 1..Len(Categories)} |-> Undefined]

\* const projectThoughts = { project_notes }, const userThoughts = { the other four }
ProjectThoughts_Unsplit(thoughts) == thoughts

ProjectThoughts(thoughts) == [NoThoughts EXCEPT !["project_notes"] = thoughts["project_notes"]]
UserThoughts(thoughts) == [thoughts EXCEPT !["project_notes"] = Undefined]

\* what the process_thoughts handler answers (server.ts)
NoCategoryError == "At least one thought category must be provided"
ThoughtsRecorded == "Thoughts recorded successfully."
ThoughtsFailed == "Failed to write thoughts"

\* the handler's try around writeThoughts: its answer when writeThoughts
\* resolved, or threw
ThoughtsResponse(thrown) == IF thrown = "none" THEN ThoughtsRecorded ELSE ThoughtsFailed

\* writeThoughts(thoughts) at instant t; r1, r2 the random parts of the two file names
writeThoughts(thoughts, t, r1, r2, fault1, fault2) ==
    LET projectThoughts == ProjectThoughts(thoughts)
        userThoughts == UserThoughts(thoughts)
        toProject == Truthy(projectThoughts["project_notes"])
        hasUserContent == \E c \in DOMAIN userThoughts : userThoughts[c] # Undefined
        fs1 == IF toProject
               THEN writeThoughtsToLocation(files, projectThoughts, t, r1, projectJournalPath, fault1)
               ELSE files
        \* what the first await threw ends the call
        thrown1 == IF toProject
                   THEN EmbeddingThrown(formatThoughts(projectThoughts, t), fault1)
                   ELSE "none"
        toUser == hasUserContent /\ thrown1 = "none"
        fs2 == IF toUser
               THEN writeThoughtsToLocation(fs1, userThoughts, t, r2, userJournalPath, fault2)
               ELSE fs1
        thrown2 == IF toUser
                   THEN EmbeddingThrown(formatThoughts(userThoughts, t), fault2)
                   ELSE thrown1
        ds1 == IF toProject THEN ensureDirectoryExists(dirs, projectJournalPath, formatDate(t)) ELSE dirs
        ds2 == IF toUser THEN ensureDirectoryExists(ds1, userJournalPath, formatDate(t)) ELSE ds1
    IN  /\ NoteCount + (IF toProject THEN 1 ELSE 0) + (IF hasUserContent THEN 1 ELSE 0) <= MaxNotes
        /\ t >= now
        /\ now' = t
        /\ dirs' = ds2
        /\ files' = fs2
        /\ op' = [name |-> "writeThoughts", thoughts |-> thoughts,
                  paths |-> (IF toProject
                             THEN {Path(projectJournalPath, formatDate(t), formatTimestamp(t, r1), "md")}
                             ELSE {})
                            \cup
                            (IF hasUserContent
                             THEN {Path(userJournalPath, formatDate(t), formatTimestamp(t, r2), "md")}
                             ELSE {}),
                  faults |-> ((IF toProject THEN {fault1} ELSE {})
                              \cup (IF hasUserContent THEN {fault2} ELSE {})) \ {"none"},
                  failed |-> (IF toProject /\ fault1 # "none"
                              THEN {<<Path(projectJournalPath, formatDate(t), formatTimestamp(t, r1), "md"),
                                      formatThoughts(projectThoughts, t)>>}
                              ELSE {})
                             \cup
                             (IF hasUserContent /\ fault2 # "none"
                              THEN {<<Path(userJournalPath, formatDate(t), formatTimestamp(t, r2), "md"),
                                      formatThoughts(userThoughts, t)>>}
                              ELSE {}),
                  thrown |-> thrown2, response |-> ThoughtsResponse(thrown2)]
        /\ UNCHANGED <<projectJournalPath, userJournalPath>>

\* const hasAnyContent = Object.values(thoughts).some(value => value !== undefined)
HasAnyContent(thoughts) == \E c \in DOMAIN thoughts : thoughts[c] # Undefined

\* the process_thoughts handler: the call is rejected when no category is
\* given, else writeThoughts is awaited and its outcome answered
process_thoughts(thoughts, t, r1, r2, fault1, fault2) ==
    IF ~HasAnyContent(thoughts)
    THEN /\ op' = [name |-> "process_thoughts", thoughts |-> thoughts, paths |-> {},
                   faults |-> {}, failed |-> {}, thrown |-> "none",
                   response |-> NoCategoryError]
         /\ UNCHANGED diskVars
    ELSE writeThoughts(thoughts, t, r1, r2, fault1, fault2)

\* extractTimestampFromPath(filePath): the instant encoded in the day directory
\* and the HH-MM-SS part of the file name, or Null
Null == -1

extractTimestampFromPath(p) ==
    IF p.base[1] # "time" THEN Null
    ELSE IF p.dir[1] # "date" THEN Null
    ELSE p.dir[2] * MsPerDay + p.base[2] * MsPerSecond

\* generateMissingEmbeddings: const paths = [projectJournalPath, userJournalPath]
ReconcileRoots_ProjectOnly == <<projectJournalPath>>

ReconcileRoots == <<projectJournalPath, userJournalPath>>

\* the .md files of the YYYY-MM-DD directories of a root
DatedNotes(fs, root) == {p \in MdFiles(fs) : p.root = root /\ IsDateDir(p.dir)}

\* the orders in which readdir may list a set of files: directory by directory
ListingOrders(S) ==
    LET n == Cardinality(S)
    IN  {o \in [1..n -> S] :
            /\ \A i, j \in 1..n : i # j => o[i] # o[j]
            /\ \A i, j, k \in 1..n : (i < j /\ j < k /\ o[i].dir = o[k].dir) => o[j].dir = o[i].dir}

ScanOrders(fs, root) == ListingOrders(DatedNotes(fs, root))

\* the listing order only shows when a read fails and ends the scan of the root
OrdersFor(fs, root, faults) ==
    IF \E x \in DOMAIN faults : faults[x] = "read"
    THEN ScanOrders(fs, root)
    ELSE {CHOOSE o \in ScanOrders(fs, root) : TRUE}

FaultOf(faults, pass, p) ==
    IF <<pass, p>> \in DOMAIN faults THEN faults[<<pass, p>>] ELSE "none"

\* await fs.access(embeddingPath): the sidecar of the note is there
HasEmbedding_Never(fs, mdPath) == FALSE

HasEmbedding(fs, mdPath) == EmbeddingPath(mdPath) \in DOMAIN fs

\* the loop over the .md files of one root (lines 233-248); a failing readFile
\* is thrown to the catch around the whole root (line 250)
RECURSIVE ScanFiles(_, _, _, _, _, _)
ScanFiles(acc, order, i, pass, faults, t) ==
    IF i > Len(order) THEN acc
    ELSE LET mdPath == order[i]
             fault == FaultOf(faults, pass, mdPath)
         IN  IF HasEmbedding(acc.fs, mdPath)
             THEN ScanFiles(acc, order, i + 1, pass, faults, t)
             ELSE IF fault = "read"
             THEN [acc EXCEPT !.failed = @ \cup {<<mdPath, fault>>}, !.thrown = "EACCES"]
             ELSE LET content == acc.fs[mdPath]
                      stamp == extractTimestampFromPath(mdPath)
                      timestamp == IF stamp = Null THEN t ELSE stamp
                      fs2 == generateEmbeddingForEntry(acc.fs, mdPath, content, timestamp, fault)
                      hit == fault # "none" /\ extractSearchableText(content).text # <<>>
                  IN  ScanFiles([fs |-> fs2, count |-> acc.count + 1,
                                 failed |-> IF hit THEN acc.failed \cup {<<mdPath, fault>>}
                                            ELSE acc.failed,
                                 thrown |-> acc.thrown],
                                order, i + 1, pass, faults, t)

\* the catch around the scan of one root (lines 250-254): whatever was thrown
\* ends the scan of that root and is absorbed (logged unless it is ENOENT)
CatchScanError_ENOENTOnly(acc) ==
    IF acc.thrown = "ENOENT" THEN [acc EXCEPT !.thrown = "none"] ELSE acc

CatchScanError(acc) == [acc EXCEPT !.thrown = "none"]

\* one root: readdir of a missing root throws ENOENT
ScanRoot(acc, ds, root, order, pass, faults, t) ==
    IF <<root>> \notin ds THEN CatchScanError([acc EXCEPT !.thrown = "ENOENT"])
    ELSE CatchScanError(ScanFiles(acc, order, 1, pass, faults, t))

\* the loop over paths; an error that left the catch would end the run
RECURSIVE ScanRoots(_, _, _, _, _, _, _)
ScanRoots(acc, ds, roots, i, orders, faults, t) ==
    IF i > Len(roots) \/ acc.thrown # "none" THEN acc
    ELSE ScanRoots(ScanRoot(acc, ds, roots[i], orders[i], i, faults, t),
                   ds, roots, i + 1, orders, faults, t)

\* the notes of the dated directories of both roots that lack a sidecar
MissingEmbeddings(fs) ==
    {p \in MdFiles(fs) : /\ p.root \in {projectJournalPath, userJournalPath}
                         /\ IsDateDir(p.dir)
                         /\ EmbeddingPath(p) \notin DOMAIN fs}

ReconcileFaults == {"read", "embed", "save"}

\* PrivateJournalServer.run(): what generateMissingEmbeddings did is logged, a
\* rejection too, then the transport is connected
run(rejected) == IF rejected THEN "connected" ELSE "connected"

\* generateMissingEmbeddings(): the whole run
generateMissingEmbeddings ==
    \E F \in SUBSET ({1, 2} \X MissingEmbeddings(files)) :
        /\ Cardinality(F) <= MaxFaults
        /\ \E faults \in [F -> ReconcileFaults] :
           \E o1 \in OrdersFor(files, projectJournalPath, faults),
              o2 \in OrdersFor(files, userJournalPath, faults) :
             LET scan == ScanRoots([fs |-> files, count |-> 0, failed |-> {},
                                    thrown |-> "none"], dirs,
                                   ReconcileRoots, 1, <<o1, o2>>, faults, now)
             IN  /\ files' = scan.fs
                 /\ op' = [name |-> "reconcile", count |-> scan.count, failed |-> scan.failed,
                           missing |-> MissingEmbeddings(files),
                           created |-> (DOMAIN scan.fs) \ (DOMAIN files),
                           rejected |-> scan.thrown # "none",
                           startup |-> run(scan.thrown # "none")]
                 /\ UNCHANGED <<projectJournalPath, userJournalPath, dirs, now>>

(***************************************************************************)
(* The environment: notes that are on disk without the writer's doing      *)
(* (written by an earlier version, or copied in)                           *)
(***************************************************************************)
ExternalLocations ==
    { <<formatDate(0), <<"time", 0, 500>> >>,
      <<formatDate(0), <<"other", 0, 0>> >>,
      << <<"other", 0>>, <<"time", 0, 500>> >> }

ExternalContents ==
    { [kind |-> "note", timestamp |-> NoFrontmatter, lines |-> <<Heading("Feelings"), TextLine("a")>>] }

ExternalNote(root, loc, content) ==
    LET p == Path(root, loc[1], loc[2], "md")
    IN  /\ NoteCount < MaxNotes
        /\ p \notin DOMAIN files
        /\ files' = Put(files, p, content)
        /\ dirs' = dirs \cup {<<root>>, <<root, loc[1]>>}
        /\ op' = [name |-> "external", paths |-> {p}]
        /\ UNCHANGED <<projectJournalPath, userJournalPath, now>>

(***************************************************************************)
(* Strings of the section filter: characters, toLowerCase(), includes()    *)
(***************************************************************************)
Chars(s) ==
    CASE s = "" -> <<>>
      [] s = "Feelings" -> <<"F", "e", "e", "l", "i", "n", "g", "s">>
      [] s = "feelings" -> <<"f", "e", "e", "l", "i", "n", "g", "s">>
      [] s = "Project Notes" -> <<"P", "r", "o", "j", "e", "c", "t", " ", "N", "o", "t", "e", "s">>
      [] s = "NOTES" -> <<"N", "O", "T", "E", "S">>
      [] s = "User Context" -> <<"U", "s", "e", "r", " ", "C", "o", "n", "t", "e", "x", "t">>
      [] s = "Technical Insights" ->
            <<"T", "e", "c", "h", "n", "i", "c", "a", "l", " ", "I", "n", "s", "i", "g", "h", "t", "s">>
      [] s = "technical_insights" ->
            <<"t", "e", "c", "h", "n", "i", "c", "a", "l", "_", "i", "n", "s", "i", "g", "h", "t", "s">>
      [] s = "World Knowledge" ->
            <<"W", "o", "r", "l", "d", " ", "K", "n", "o", "w", "l", "e", "d", "g", "e">>

LowerChar(c) ==
    CASE c = "A" -> "a" [] c = "B" -> "b"
      [] c = "C" -> "c" [] c = "E" -> "e" [] c = "F" -> "f" [] c = "I" -> "i"
      [] c = "K" -> "k" [] c = "N" -> "n" [] c = "O" -> "o" [] c = "P" -> "p"
      [] c = "S" -> "s" [] c = "T" -> "t" [] c = "U" -> "u" [] c = "W" -> "w"
      [] OTHER -> c

\* s.toLowerCase()
toLowerCase(cs) == [i \in 1..Len(cs) |-> LowerChar(cs[i])]

\* hay.includes(needle)
includes(hay, needle) ==
    \E i \in 0..(Len(hay) - Len(needle)) :
        \A j \in 1..Len(needle) : hay[i + j] = needle[j]

(***************************************************************************)
(* EmbeddingService.cosineSimilarity, in hundredths                        *)
(***************************************************************************)
RECURSIVE Dot(_, _)
Dot(a, b) == IF a = <<>> THEN 0 ELSE a[1] * b[1] + Dot(Tail(a), Tail(b))

\* Math.sqrt, on the squares the vectors of the model have
Sqrt(x) == CHOOSE n \in 0..x : n * n = x

ScoreScale == 100

\* cosineSimilarity(a, b) fails with DimensionMismatch when the lengths differ
DimensionMismatch(a, b) == Len(a) # Len(b)

\* cosineSimilarity(a, b) otherwise: 0 when a norm is 0, else the dot product
\* over the norms
cosineSimilarity(a, b) ==
    LET normA == Sqrt(Dot(a, a))
        normB == Sqrt(Dot(b, b))
    IN  IF normA = 0 \/ normB = 0 THEN 0
        ELSE (Dot(a, b) * ScoreScale) \div (normA * normB)

(***************************************************************************)
(* SearchService                                                           *)
(***************************************************************************)
DefaultLimit == 10
DefaultMinScore == 10

\* the .embedding files of the YYYY-MM-DD directories of a root
DatedSidecars(fs, root) == {p \in EmbeddingFiles(fs) : p.root = root /\ IsDateDir(p.dir)}

\* { ...embeddingData, type }: the tag of the root replaces any type of the content.
\* file is the sidecar the entry was read from (kept for the properties only)
Tagged_ContentFirst(data, type, file) ==
    IF data.kind = "record"
    THEN [kind |-> "record", embedding |-> data.embedding, text |-> data.text,
          sections |-> data.sections, timestamp |-> data.timestamp, path |-> data.path,
          type |-> IF data.type # "none" THEN data.type ELSE type, file |-> file]
    ELSE [kind |-> data.kind, type |-> type, file |-> file]

Tagged(data, type, file) ==
    IF data.kind = "record"
    THEN [kind |-> "record", embedding |-> data.embedding, text |-> data.text,
          sections |-> data.sections, timestamp |-> data.timestamp, path |-> data.path,
          type |-> type, file |-> file]
    ELSE [kind |-> data.kind, type |-> type, file |-> file]

\* text JSON.parse rejects: anything that is no JSON, a file caught while it
\* is written (empty or cut off)
Unparseable(data) == data.kind \in {"garbage", "partial"}

\* one turn of the loop over embeddingFiles (lines 186-196): read, parse, push;
\* what readFile or JSON.parse throws is caught and the file passed over
LoadOne_NoCatch(embeddings, fs, file, type) ==
    IF file \notin DOMAIN fs THEN embeddings
    ELSE Append(embeddings, Tagged(fs[file], type, file))

LoadOne(embeddings, fs, file, type) ==
    IF file \notin DOMAIN fs \/ Unparseable(fs[file]) THEN embeddings
    ELSE Append(embeddings, Tagged(fs[file], type, file))

\* loadEmbeddingsFromPath(basePath, type): a sidecar that JSON.parse rejects is
\* passed over, every other one is pushed as it parsed; a missing root gives []
RECURSIVE LoadFiles(_, _, _, _)
LoadFiles(fs, order, i, type) ==
    IF i > Len(order) THEN <<>>
    ELSE LoadOne(<<>>, fs, order[i], type) \o LoadFiles(fs, order, i + 1, type)

loadEmbeddingsFromPath_MissingRootNotEmpty(fs, ds, basePath, type, order) ==
    IF <<basePath>> \notin ds
    THEN <<Tagged([kind |-> "emptyObject"], type, Path(basePath, <<"other", 0>>, <<"other", 0, 0>>, "embedding"))>>
    ELSE LoadFiles(fs, order, 1, type)

loadEmbeddingsFromPath(fs, ds, basePath, type, order) ==
    IF <<basePath>> \notin ds THEN <<>>
    ELSE LoadFiles(fs, order, 1, type)

\* the two loads of search and listRecent (lines 53-64, 118-128)
CollectEmbeddings(fs, ds, type, orders) ==
    (IF type \in {"both", "project"}
     THEN loadEmbeddingsFromPath(fs, ds, projectJournalPath, "project", orders[1])
     ELSE <<>>)
    \o
    (IF type \in {"both", "user"}
     THEN loadEmbeddingsFromPath(fs, ds, userJournalPath, "user", orders[2])
     ELSE <<>>)

NoSections == <<"undefined">>
NoRange == [start |-> Null, end |-> Null]

\* sections.some(section => embedding.sections.some(s => s.toLowerCase().includes(section.toLowerCase())))
HasMatchingSection(entrySections, sections) ==
    \E i \in 1..Len(sections), j \in 1..Len(entrySections) :
        includes(toLowerCase(Chars(entrySections[j])), toLowerCase(Chars(sections[i])))

SectionFilterOn(sections) == sections # NoSections /\ Len(sections) > 0

\* the date range test; a missing timestamp gives an Invalid Date, which no
\* comparison rejects
InDateRange(e, dateRange) ==
    \/ e.kind # "record"
    \/ /\ ~(dateRange.start # Null /\ e.timestamp < dateRange.start)
       /\ ~(dateRange.end # Null /\ e.timestamp > dateRange.end)

\* array.slice(0, limit)
Slice(s, limit) ==
    LET n == IF limit >= 0 THEN (IF limit < Len(s) THEN limit ELSE Len(s))
             ELSE (IF Len(s) + limit > 0 THEN Len(s) + limit ELSE 0)
    IN  SubSeq(s, 1, n)

\* (a, b) => b.score - a.score
ByScore(a, b) == b.score - a.score > 0

\* (a, b) => b.timestamp - a.timestamp
ByTimestamp_Ascending(a, b) == a.timestamp - b.timestamp > 0

ByTimestamp(a, b) == b.timestamp - a.timestamp > 0

\* array.sort(cmp): stable; cmp names the comparator, and Before(a, b) is
\* cmp(a, b) > 0, i.e. b goes first. An element comes after those that go
\* first and after the equal ones that preceded it
StableSort(s, cmp) ==
    LET n == Len(s)
        Before(x, y) == IF cmp = "ByScore" THEN ByScore(x, y) ELSE ByTimestamp(x, y)
        Rank(i) == 1 + Cardinality({j \in 1..n :
                         /\ j # i
                         /\ \/ Before(s[i], s[j])
                            \/ (~Before(s[j], s[i]) /\ j < i)})
    IN  [k \in 1..n |-> s[CHOOSE i \in 1..n : Rank(i) = k]]

Failure(e) == [ok |-> FALSE, error |-> e, results |-> <<>>]
Success(rs) == [ok |-> TRUE, error |-> "", results |-> rs]

\* result.score >= minScore
PassesMinScore_Strict(score, minScore) == score > minScore

PassesMinScore(score, minScore) == score >= minScore

SearchResult(e, score) ==
    [path |-> e.path, score |-> score, text |-> e.text, sections |-> e.sections,
     timestamp |-> e.timestamp, type |-> e.type, file |-> e.file]

\* search after the loads (lines 66-108): filter, score, sort, slice
RankEmbeddings(allEmbeddings, queryEmbedding, o) ==
    LET Broken(e) == e.kind # "record"
        Keep(e) == /\ SectionFilterOn(o.sections) => HasMatchingSection(e.sections, o.sections)
                   /\ InDateRange(e, o.dateRange)
    IN  \* embedding.sections.some on an entry without sections throws
        IF SectionFilterOn(o.sections) /\ \E i \in 1..Len(allEmbeddings) : Broken(allEmbeddings[i])
        THEN Failure("TypeError")
        ELSE
        LET filtered == SelectSeq(allEmbeddings, Keep)
        IN  \* cosineSimilarity throws on a missing or differently long vector
            IF \E i \in 1..Len(filtered) : Broken(filtered[i])
            THEN Failure("TypeError")
            ELSE IF \E i \in 1..Len(filtered) :
                      DimensionMismatch(queryEmbedding, filtered[i].embedding)
            THEN Failure("DimensionMismatch")
            ELSE
            LET mapped == [i \in 1..Len(filtered) |->
                             SearchResult(filtered[i],
                                 cosineSimilarity(queryEmbedding, filtered[i].embedding))]
                Scored(r) == PassesMinScore(r.score, o.minScore)
            IN  Success(Slice(StableSort(SelectSeq(mapped, Scored), "ByScore"), o.limit))

\* search(query, options): queryEmbedding is what generateEmbedding(query) gave,
\* or "failed" when it threw; the await is outside any try, so search rejects
search_EmptyOnFailure(fs, ds, queryEmbedding, o, orders) ==
    IF queryEmbedding = <<"failed">> THEN Success(<<>>)
    ELSE RankEmbeddings(CollectEmbeddings(fs, ds, o.type, orders), queryEmbedding, o)

search(fs, ds, queryEmbedding, o, orders) ==
    IF queryEmbedding = <<"failed">> THEN Failure("embedding")
    ELSE RankEmbeddings(CollectEmbeddings(fs, ds, o.type, orders), queryEmbedding, o)

\* the search_journal handler: the results as one text answer, or one error
\* that wraps what search threw
search_journal(outcome) ==
    IF outcome.ok
    THEN [isError |-> FALSE, entries |-> Len(outcome.results)]
    ELSE [isError |-> TRUE, entries |-> 0]

\* the orders a sort may leave when its comparator is not consistent
SortOutcomes(s) ==
    {[i \in 1..Len(s) |-> s[p[i]]] :
        p \in {q \in [1..Len(s) -> 1..Len(s)] : \A i, j \in 1..Len(s) : i # j => q[i] # q[j]}}

\* listRecent after the loads (lines 130-152): the outcomes. An entry without timestamp makes the
\* comparator return NaN, so the order is the implementation's; an entry
\* without text makes generateExcerpt throw
RecentEntries(allEmbeddings, o) ==
    LET Keep(e) == InDateRange(e, o.dateRange)
        filtered == IF o.dateRange # NoRange THEN SelectSeq(allEmbeddings, Keep) ELSE allEmbeddings
        sortedOnes == IF \E i \in 1..Len(filtered) : filtered[i].kind # "record"
                      THEN SortOutcomes(filtered)
                      ELSE {StableSort(filtered, "ByTimestamp")}
    IN  { LET top == Slice(s, o.limit)
          IN  IF \E i \in 1..Len(top) : top[i].kind # "record"
              THEN Failure("TypeError")
              ELSE Success([i \in 1..Len(top) |-> SearchResult(top[i], ScoreScale)])
          : s \in sortedOnes }

\* null, where a file content is expected
NullContent == [kind |-> "null"]

\* fs.readFile(filePath, 'utf8'): the content, or the error code; fault is an
\* I/O failure other than the file not being there
readFile(fs, filePath, fault) ==
    IF fault # "none" THEN [error |-> fault, content |-> NullContent]
    ELSE IF filePath \notin DOMAIN fs THEN [error |-> "ENOENT", content |-> NullContent]
    ELSE [error |-> "none", content |-> fs[filePath]]

\* readEntry(filePath): the content, null for ENOENT, any other error rethrown
readEntry_NullOnAnyError(fs, filePath, fault) ==
    LET r == readFile(fs, filePath, fault)
    IN  IF r.error # "none" THEN [ok |-> TRUE, error |-> "", value |-> NullContent]
        ELSE [ok |-> TRUE, error |-> "", value |-> r.content]

readEntry(fs, filePath, fault) ==
    LET r == readFile(fs, filePath, fault)
    IN  IF r.error = "ENOENT" THEN [ok |-> TRUE, error |-> "", value |-> NullContent]
        ELSE IF r.error # "none" THEN [ok |-> FALSE, error |-> r.error, value |-> NullContent]
        ELSE [ok |-> TRUE, error |-> "", value |-> r.content]

\* the read_journal_entry handler: the content as text, or one error ('Entry
\* not found' for null)
read_journal_entry(outcome) ==
    IF outcome.ok /\ outcome.value # NullContent
    THEN [isError |-> FALSE, text |-> outcome.value]
    ELSE [isError |-> TRUE, text |-> NullContent]

\* listRecent(options): the outcomes
listRecent(fs, ds, o, orders) == RecentEntries(CollectEmbeddings(fs, ds, o.type, orders), o)

(***************************************************************************)
(* SearchService.generateExcerpt, on strings as sequences of characters    *)
(***************************************************************************)
ExcerptStep == 20
SearchExcerptLength == 200
RecentExcerptLength == 150

Ellipsis == <<".", ".", ".">>

\* s.slice(from, to), 0 <= from
StringSlice(s, from, to) ==
    SubSeq(s, from + 1, IF to < Len(s) THEN to ELSE Len(s))

\* s.trim()
RECURSIVE trim(_)
trim(s) ==
    IF s = <<>> THEN s
    ELSE IF s[1] = " " THEN trim(Tail(s))
    ELSE IF s[Len(s)] = " " THEN trim(SubSeq(s, 1, Len(s) - 1))
    ELSE s

\* s.split(/\s+/) from character i on, cur being the piece under way: a run
\* of whitespace ends a piece, also an empty one at either end of s
RECURSIVE SplitFrom(_, _, _)
SplitFrom(s, i, cur) ==
    IF i > Len(s) THEN <<cur>>
    ELSE IF s[i] = " "
    THEN LET rest == {j \in (i + 1)..Len(s) : s[j] # " "}
             next == IF rest = {} THEN Len(s) + 1
                     ELSE CHOOSE j \in rest : \A k \in rest : j <= k
         IN  <<cur>> \o SplitFrom(s, next, <<>>)
    ELSE SplitFrom(s, i + 1, Append(cur, s[i]))

split(s) == SplitFrom(s, 1, <<>>)

\* queryWords.reduce((sum, word) => sum + (window.includes(word) ? 1 : 0), 0)
WindowScore(window, queryWords) ==
    Cardinality({k \in 1..Len(queryWords) : includes(window, queryWords[k])})

\* for (let i = 0; i <= text.length - maxLength; i += 20): the best position
RECURSIVE BestPosition(_, _, _, _, _, _)
BestPosition(textLower, queryWords, maxLength, i, bestPosition, bestScore) ==
    IF i > Len(textLower) - maxLength THEN bestPosition
    ELSE LET window == StringSlice(textLower, i, i + maxLength)
             score == WindowScore(window, queryWords)
         IN  IF score > bestScore
             THEN BestPosition(textLower, queryWords, maxLength, i + ExcerptStep, i, score)
             ELSE BestPosition(textLower, queryWords, maxLength, i + ExcerptStep,
                               bestPosition, bestScore)

\* generateExcerpt(text, query, maxLength)
generateExcerpt(text, query, maxLength) ==
    IF query = <<>> \/ trim(query) = <<>>
    THEN StringSlice(text, 0, maxLength) \o (IF Len(text) > maxLength THEN Ellipsis ELSE <<>>)
    ELSE LET queryWords == split(toLowerCase(query))
             textLower == toLowerCase(text)
             bestPosition == BestPosition(textLower, queryWords, maxLength, 0, 0, 0)
         IN  (IF bestPosition > 0 THEN Ellipsis ELSE <<>>)
             \o StringSlice(text, bestPosition, bestPosition + maxLength)
             \o (IF bestPosition + maxLength < Len(text) THEN Ellipsis ELSE <<>>)

(***************************************************************************)
(* Inputs                                                                  *)
(***************************************************************************)
EntryContents == {"", "a"}

Thoughts(f, p, u, ti, w) ==
    [feelings |-> f, project_notes |-> p, user_context |-> u,
     technical_insights |-> ti, world_knowledge |-> w]

ThoughtInputs ==
    { Thoughts(Undefined, Undefined, Undefined, Undefined, Undefined),
      Thoughts(Undefined, "b", Undefined, Undefined, Undefined),
      Thoughts("a", "b", Undefined, "b", Undefined),
      Thoughts("", Undefined, Undefined, Undefined, Undefined),
      Thoughts(Undefined, "", Undefined, Undefined, Undefined),
      Thoughts(Undefined, "", Undefined, Undefined, " ") }

\* what may go wrong inside generateEmbeddingForEntry for a note: nothing can
\* when the text is empty, since neither the model nor the save is reached
FaultChoices(content) ==
    IF extractSearchableText(content).text = <<>> THEN {"none"} ELSE WriteFaults

ToProject(thoughts) == Truthy(thoughts["project_notes"])
HasUserContent(thoughts) ==
    \E c \in DOMAIN thoughts : c # "project_notes" /\ thoughts[c] # Undefined

(***************************************************************************)
(* SpecSearch: one search or listRecent over roots holding any sidecars    *)
(***************************************************************************)
MaxRecords == 2

\* where sidecars may lie: two in the project root, one in the user root,
\* one in a directory of the user root that is not a day
SidecarSlots ==
    { Path(projectJournalPath, formatDate(0), <<"time", 0, 0>>, "embedding"),
      Path(projectJournalPath, formatDate(0), <<"time", 0, 1>>, "embedding"),
      Path(userJournalPath, formatDate(0), <<"time", 1, 0>>, "embedding"),
      Path(userJournalPath, <<"other", 0>>, <<"time", 0, 0>>, "embedding") }

RecordShapes ==
    { [embedding |-> <<5, 0>>, sections |-> <<"Feelings">>, timestamp |-> 1000, type |-> "none"],
      [embedding |-> <<3, 4>>, sections |-> <<"Project Notes", "Technical Insights">>,
       timestamp |-> 2000, type |-> "none"],
      [embedding |-> <<0, 0>>, sections |-> <<>>, timestamp |-> 2000, type |-> "none"],
      [embedding |-> <<3, 4, 0>>, sections |-> <<"Feelings">>, timestamp |-> 1000, type |-> "none"],
      [embedding |-> <<3, 4>>, sections |-> <<"Feelings">>, timestamp |-> 2000, type |-> "user"] }

\* what a sidecar file may hold: text JSON.parse rejects, JSON without the
\* fields of a record ({}), or a record
SidecarContents(slot) ==
    { [kind |-> "garbage"], [kind |-> "emptyObject"] }
    \cup
    { [kind |-> "record", embedding |-> s.embedding, text |-> <<"a">>, sections |-> s.sections,
       timestamp |-> s.timestamp, path |-> NotePath(slot), type |-> s.type] : s \in RecordShapes }

DirsOf(fs) == UNION {{<<p.root>>, <<p.root, p.dir>>} : p \in DOMAIN fs}

QueryEmbeddings == {<<5, 0>>, <<4, 3>>, <<"failed">>}
Limits == {0, 1, DefaultLimit}
MinScores == {DefaultMinScore, 0, 60}
SectionFilters == {NoSections, <<"feelings">>, <<"NOTES", "technical_insights">>}
DateRanges == {NoRange, [start |-> 1500, end |-> Null], [start |-> Null, end |-> 1000]}
Types == {"both", "project", "user"}

DefaultOptions ==
    [limit |-> DefaultLimit, minScore |-> DefaultMinScore, sections |-> NoSections,
     dateRange |-> NoRange, type |-> "both"]

SearchOptions ==
    [limit : Limits, minScore : MinScores, sections : SectionFilters,
     dateRange : DateRanges, type : Types]

\* listRecent takes the same options object; it reads limit, type and dateRange
ListOptions ==
    [limit : Limits, minScore : {DefaultMinScore}, sections : {NoSections},
     dateRange : DateRanges, type : Types]
    \cup
    [limit : Limits, minScore : {2 * ScoreScale}, sections : {<<"feelings">>},
     dateRange : DateRanges, type : Types]

\* this.projectPath, this.userPath: the root a type is loaded from
RootOf(type) == IF type = "project" THEN projectJournalPath ELSE userJournalPath

SidecarOrders(fs) ==
    ListingOrders(DatedSidecars(fs, projectJournalPath))
        \X ListingOrders(DatedSidecars(fs, userJournalPath))

Search(queryEmbedding, o) ==
    /\ \E orders \in SidecarOrders(files) :
          LET outcome == search(files, dirs, queryEmbedding, o, orders)
          IN  op' = [name |-> "search", query |-> queryEmbedding, options |-> o,
                     orders |-> orders, outcome |-> outcome,
                     response |-> search_journal(outcome)]
    /\ UNCHANGED diskVars

ListRecent(o) ==
    /\ \E orders \in SidecarOrders(files) :
       \E outcome \in listRecent(files, dirs, o, orders) :
          op' = [name |-> "listRecent", query |-> <<>>, options |-> o, orders |-> orders,
                 outcome |-> outcome]
    /\ UNCHANGED diskVars

\* readEntry(filePath) as an operation
ReadEntry(filePath, fault) ==
    /\ LET outcome == readEntry(files, filePath, fault)
       IN  op' = [name |-> "readEntry", path |-> filePath, fault |-> fault,
                  outcome |-> outcome, response |-> read_journal_entry(outcome)]
    /\ UNCHANGED diskVars

InitSearch ==
    /\ InitEngine
    /\ projectJournalPath \in {ProjectRoot, HomeRoot}
    /\ userJournalPath = HomeRoot
    /\ \E S \in SUBSET SidecarSlots :
          /\ Cardinality(S) <= MaxRecords
          /\ files \in {f \in [S -> UNION {SidecarContents(x) : x \in S}] :
                           \A x \in S : f[x] \in SidecarContents(x)}
    /\ dirs = DirsOf(files)
    /\ now = 0
    /\ op = NoOp

NextSearch ==
    \/ \E q \in QueryEmbeddings :
       \E o \in (IF q = <<"failed">> THEN {DefaultOptions} ELSE SearchOptions) :
          op.name = "none" /\ Search(q, o) /\ UNCHANGED engineVars
    \/ \E o \in ListOptions : op.name = "none" /\ ListRecent(o) /\ UNCHANGED engineVars

SpecSearch == InitSearch /\ [][NextSearch]_vars

(***************************************************************************)
(* Spec: the journal on disk                                               *)
(***************************************************************************)
\* what the tools ask of a journal that is in use: the handler's defaults, every type
JournalQueryEmbedding == <<4, 3>>
JournalQueries == {[DefaultOptions EXCEPT !.type = t] : t \in Types}

\* the section filters the search_journal tool documents: category names
CategoryFilters == {<<"feelings">>, <<"technical_insights">>, <<"feelings", "technical_insights">>}
SectionQueries == {[DefaultOptions EXCEPT !.sections = f] : f \in CategoryFilters}

\* list_recent_entries asked for as many entries as the journal can hold
RecentQueries == {[DefaultOptions EXCEPT !.limit = MaxNotes]}

\* the paths read_journal_entry is asked for: every file there is and one that is not
ReadPaths ==
    (DOMAIN files) \cup {Path(projectJournalPath, formatDate(0), <<"other", 1, 0>>, "md")}
ReadFaults == {"none", "EACCES"}

Init ==
    /\ InitEngine
    /\ projectJournalPath \in {ProjectRoot, HomeRoot}
    /\ userJournalPath = HomeRoot
    /\ files = <<>>
    /\ dirs = {}
    /\ now = 0
    /\ op = NoOp

Next ==
    \/ \E content \in EntryContents, t \in Instants, r \in 0..MaxRand :
       \E fault \in FaultChoices(formatEntry(content, t)) :
          writeEntry(content, t, r, fault) /\ UNCHANGED engineVars
    \/ \E thoughts \in ThoughtInputs, t \in Instants :
       \E r1 \in (IF ToProject(thoughts) THEN 0..MaxRand ELSE {0}),
          r2 \in (IF HasUserContent(thoughts) THEN 0..MaxRand ELSE {0}),
          fault1 \in (IF ToProject(thoughts)
                      THEN FaultChoices(formatThoughts(ProjectThoughts(thoughts), t))
                      ELSE {"none"}),
          fault2 \in (IF HasUserContent(thoughts)
                      THEN FaultChoices(formatThoughts(UserThoughts(thoughts), t))
                      ELSE {"none"}) :
          process_thoughts(thoughts, t, r1, r2, fault1, fault2) /\ UNCHANGED engineVars
    \/ generateMissingEmbeddings /\ UNCHANGED engineVars
    \/ \E root \in {projectJournalPath, userJournalPath}, loc \in ExternalLocations,
          content \in ExternalContents :
          ExternalNote(root, loc, content) /\ UNCHANGED engineVars

Spec == Init /\ [][Next]_vars

(***************************************************************************)
(* SpecQuery: the journal on disk, read by one search, listRecent or       *)
(* readEntry. The reads change nothing on disk, so one read after any run  *)
(* of writes shows every answer a read can give.                           *)
(***************************************************************************)
IsRead(o) == o.name \in {"search", "listRecent", "readEntry"}

NextQuery ==
    \/ ~IsRead(op) /\ Next
    \/ \E o \in JournalQueries \cup SectionQueries :
          ~IsRead(op) /\ Search(JournalQueryEmbedding, o) /\ UNCHANGED engineVars
    \/ \E o \in JournalQueries \cup RecentQueries :
          ~IsRead(op) /\ ListRecent(o) /\ UNCHANGED engineVars
    \/ \E filePath \in ReadPaths, fault \in ReadFaults :
          ~IsRead(op) /\ ReadEntry(filePath, fault) /\ UNCHANGED engineVars

SpecQuery == Init /\ [][NextQuery]_vars

InitEmbed ==
    /\ InitEngine
    /\ projectJournalPath = ProjectRoot
    /\ userJournalPath = HomeRoot
    /\ files = <<>>
    /\ dirs = {}
    /\ now = 0
    /\ op = NoOp

NextEmbed ==
    \/ \E c \in Callers : generateEmbedding(c) /\ UNCHANGED <<diskVars, op>>
    \/ LoadResolved /\ UNCHANGED <<diskVars, op>>
    \/ LoadRejected /\ UNCHANGED <<diskVars, op>>
    \/ \E c \in Callers : Infer(c) /\ UNCHANGED <<diskVars, op>>
    \/ \E c \in Callers : Return(c) /\ UNCHANGED <<diskVars, op>>

SpecEmbed == InitEmbed /\ [][NextEmbed]_vars

(***************************************************************************)
(* SpecScan: one search or listRecent, its loads taken one file system     *)
(* call at a time, while notes are written: the note file, then its        *)
(* sidecar, which is on disk cut off before it is whole                    *)
(***************************************************************************)
\* what a sidecar holds while saveEmbedding's writeFile is under way
PartialContent == [kind |-> "partial"]

\* the two notes of a process_thoughts call: <<root, thoughts>>
ScanThoughts == Thoughts("a", "b", Undefined, Undefined, Undefined)
ScanWrites ==
    { <<projectJournalPath, ProjectThoughts(ScanThoughts)>>,
      <<userJournalPath, UserThoughts(ScanThoughts)>> }

\* writeThoughtsToLocation up to fs.writeFile(filePath, formattedEntry) (lines 119-128)
WriteNoteFile(basePath, thoughts, t, r) ==
    LET filePath == Path(basePath, formatDate(t), formatTimestamp(t, r), "md")
    IN  /\ NoteCount < MaxNotes
        /\ filePath \notin DOMAIN files
        /\ t >= now
        /\ now' = t
        /\ dirs' = ensureDirectoryExists(dirs, basePath, formatDate(t))
        /\ files' = Put(files, filePath, formatThoughts(thoughts, t))
        /\ UNCHANGED <<projectJournalPath, userJournalPath, op>>

\* saveEmbedding has opened the sidecar of a note and not yet written all of it
BeginSave(note) ==
    /\ note \in MdFiles(files)
    /\ EmbeddingPath(note) \notin DOMAIN files
    /\ extractSearchableText(files[note]).text # <<>>
    /\ files' = Put(files, EmbeddingPath(note), PartialContent)
    /\ UNCHANGED <<projectJournalPath, userJournalPath, dirs, now, op>>

\* saveEmbedding has written the whole record
EndSave(note) ==
    /\ note \in MdFiles(files)
    /\ EmbeddingPath(note) \in DOMAIN files
    /\ files[EmbeddingPath(note)] = PartialContent
    /\ files' = generateEmbeddingForEntry(files, note, files[note], files[note].timestamp, "none")
    /\ UNCHANGED <<projectJournalPath, userJournalPath, dirs, now, op>>

\* the loads search and listRecent make for a type (lines 55-63, 120-128)
TypesToLoad(type) ==
    SelectSeq(<<"project", "user">>, LAMBDA t : type \in {"both", t})

\* search or listRecent is called; nothing is loaded yet
BeginScan(call, o) ==
    /\ op.name = "none"
    /\ op' = [name |-> "scanning", call |-> call, options |-> o,
              todo |-> TypesToLoad(o.type), stage |-> "root", days |-> {},
              listing |-> <<>>, embeddings |-> <<>>, skipped |-> {}]
    /\ UNCHANGED diskVars

\* fs.readdir(basePath) with the stat of its entries (lines 174-182); ENOENT
\* ends the load of this root with what it has
ListRoot ==
    /\ op.name = "scanning" /\ op.stage = "root" /\ op.todo # <<>>
    /\ LET root == RootOf(op.todo[1])
       IN  IF <<root>> \notin dirs
           THEN op' = [op EXCEPT !.todo = Tail(@)]
           ELSE op' = [op EXCEPT !.stage = "day",
                                 !.days = {d \in {x[2] : x \in {y \in dirs : Len(y) = 2 /\ y[1] = root}} :
                                              IsDateDir(d)}]
    /\ UNCHANGED diskVars

\* fs.readdir(dayPath) of the next day directory (lines 183-184)
ListDay ==
    /\ op.name = "scanning" /\ op.stage = "day"
    /\ IF op.days = {}
       THEN op' = [op EXCEPT !.stage = "root", !.todo = Tail(@)]
       ELSE \E d \in op.days :
            \E order \in ListingOrders({p \in EmbeddingFiles(files) :
                                           p.root = RootOf(op.todo[1]) /\ p.dir = d}) :
               op' = [op EXCEPT !.stage = "files", !.days = @ \ {d}, !.listing = order]
    /\ UNCHANGED diskVars

\* one turn of the loop over embeddingFiles (lines 186-196)
ReadSidecar ==
    /\ op.name = "scanning" /\ op.stage = "files"
    /\ IF op.listing = <<>>
       THEN op' = [op EXCEPT !.stage = "day"]
       ELSE LET file == Head(op.listing)
            IN  op' = [op EXCEPT
                         !.listing = Tail(@),
                         !.embeddings = LoadOne(@, files, file, op.todo[1]),
                         !.skipped = IF Unparseable(files[file])
                                     THEN @ \cup {<<op.todo[1], file>>} ELSE @]
    /\ UNCHANGED diskVars

\* every load is done: the rest of search or listRecent, which awaits nothing
FinishScan ==
    /\ op.name = "scanning" /\ op.stage = "root" /\ op.todo = <<>>
    /\ \E outcome \in (IF op.call = "search"
                       THEN {RankEmbeddings(op.embeddings, JournalQueryEmbedding, op.options)}
                       ELSE RecentEntries(op.embeddings, op.options)) :
          op' = [name |-> "scanned", call |-> op.call, options |-> op.options,
                 outcome |-> outcome, skipped |-> op.skipped]
    /\ UNCHANGED diskVars

NextScan ==
    \/ \E w \in ScanWrites, t \in Instants, r \in 0..MaxRand :
          op.name # "scanned" /\ WriteNoteFile(w[1], w[2], t, r) /\ UNCHANGED engineVars
    \/ \E note \in DOMAIN files : op.name # "scanned" /\ BeginSave(note) /\ UNCHANGED engineVars
    \/ \E note \in DOMAIN files : op.name # "scanned" /\ EndSave(note) /\ UNCHANGED engineVars
    \/ \E call \in {"search", "listRecent"}, o \in JournalQueries :
          BeginScan(call, o) /\ UNCHANGED engineVars
    \/ ListRoot /\ UNCHANGED engineVars
    \/ ListDay /\ UNCHANGED engineVars
    \/ ReadSidecar /\ UNCHANGED engineVars
    \/ FinishScan /\ UNCHANGED engineVars

SpecScan == Init /\ [][NextScan]_vars

(***************************************************************************)
(* SpecExcerpt: generateExcerpt applied to one text, as search and         *)
(* listRecent call it                                                      *)
(***************************************************************************)
\* texts are made of pieces of ExcerptStep characters: one without any query
\* word, one with the word "a" in upper case, one with the words "b" and "c"
Filler == [i \in 1..ExcerptStep |-> "x"]
PieceA == [i \in 1..ExcerptStep |-> IF i = 1 THEN "A" ELSE "x"]
PieceBC == [i \in 1..ExcerptStep |-> IF i = 1 THEN "b" ELSE IF i = 2 THEN " "
                                     ELSE IF i = 3 THEN "c" ELSE "x"]
Pieces == {Filler, PieceA, PieceBC}

\* up to two pieces
PieceRuns == {<<>>} \cup {p : p \in Pieces} \cup {p \o q : p \in Pieces, q \in Pieces}

\* filler that puts the first and the last pieces into different windows
RECURSIVE Fillers(_)
Fillers(n) == IF n = 0 THEN <<>> ELSE Filler \o Fillers(n - 1)

PadPieces == 9
TailChars == 5

ExcerptTexts ==
    {h \o Fillers(n) \o t \o [i \in 1..k |-> "x"] :
        h \in PieceRuns, n \in {0, PadPieces}, t \in PieceRuns, k \in {0, TailChars}}

ExcerptQueries ==
    { <<>>, <<" ">>, <<"a">>, <<"A", " ", "b">>, <<" ", "c">>, <<"z", "z">>,
      <<"a", " ", "a", " ", "b", " ", "c">> }

\* search passes the query and the default maxLength, listRecent '' and 150
ExcerptCalls ==
    {<<q, SearchExcerptLength>> : q \in ExcerptQueries} \cup {<<<<>>, RecentExcerptLength>>}

GenerateExcerpt(text, query, maxLength) ==
    /\ op.name = "none"
    /\ op' = [name |-> "generateExcerpt", text |-> text, query |-> query,
              maxLength |-> maxLength, excerpt |-> generateExcerpt(text, query, maxLength)]
    /\ UNCHANGED diskVars

NextExcerpt ==
    \E text \in ExcerptTexts, call \in ExcerptCalls :
        GenerateExcerpt(text, call[1], call[2]) /\ UNCHANGED engineVars

SpecExcerpt == InitEmbed /\ [][NextExcerpt]_vars

(***************************************************************************)
(* paths.ts: where the journal roots are. A directory is the sequence of   *)
(* its segments (<<>> is '/', <<"C:">> stands for 'C:\'); process.cwd()    *)
(* gives a directory or throws; an environment variable is unset, empty or *)
(* names a directory                                                       *)
(***************************************************************************)
Directory(segments) == [k |-> "dir", v |-> segments]
Unset == [k |-> "unset", v |-> <<>>]
EmptyValue == [k |-> "empty", v |-> <<>>]
CwdThrows == [k |-> "throws", v |-> <<>>]

\* path.join(directory, subdirectory)
join(segments, subdirectory) == Append(segments, subdirectory)

\* cwd !== '/' && cwd !== 'C:\\' && cwd !== '/System' && cwd !== '/usr'
SystemDirectories == {<<>>, <<"C:">>, <<"System">>, <<"usr">>}

\* if (process.env.X)
IsSet(value) == value.k = "dir"

\* resolveJournalPath(subdirectory, includeCurrentDirectory), with what
\* process.cwd() and process.env give
resolveJournalPath_AlwaysCwd(subdirectory, includeCurrentDirectory, cwd, env) ==
    LET possiblePaths ==
            (IF cwd.k = "dir" /\ cwd.v \notin SystemDirectories
             THEN <<join(cwd.v, subdirectory)>> ELSE <<>>)
            \o (IF IsSet(env.HOME) THEN <<join(env.HOME.v, subdirectory)>> ELSE <<>>)
            \o (IF IsSet(env.USERPROFILE) THEN <<join(env.USERPROFILE.v, subdirectory)>> ELSE <<>>)
            \o <<join(<<"tmp">>, subdirectory)>>
            \o (IF IsSet(env.TEMP) THEN <<join(env.TEMP.v, subdirectory)>> ELSE <<>>)
            \o (IF IsSet(env.TMP) THEN <<join(env.TMP.v, subdirectory)>> ELSE <<>>)
    IN  possiblePaths[1]

resolveJournalPath(subdirectory, includeCurrentDirectory, cwd, env) ==
    LET possiblePaths ==
            (IF includeCurrentDirectory /\ cwd.k = "dir" /\ cwd.v \notin SystemDirectories
             THEN <<join(cwd.v, subdirectory)>> ELSE <<>>)
            \o (IF IsSet(env.HOME) THEN <<join(env.HOME.v, subdirectory)>> ELSE <<>>)
            \o (IF IsSet(env.USERPROFILE) THEN <<join(env.USERPROFILE.v, subdirectory)>> ELSE <<>>)
            \o <<join(<<"tmp">>, subdirectory)>>
            \o (IF IsSet(env.TEMP) THEN <<join(env.TEMP.v, subdirectory)>> ELSE <<>>)
            \o (IF IsSet(env.TMP) THEN <<join(env.TMP.v, subdirectory)>> ELSE <<>>)
        \* every candidate is a non-empty string, so filter(Boolean) keeps all
        validPaths == possiblePaths
    IN  IF validPaths # <<>> THEN validPaths[1] ELSE join(<<"tmp">>, subdirectory)

JournalSubdirectory == ".private-journal"

resolveUserJournalPath(cwd, env) == resolveJournalPath(JournalSubdirectory, FALSE, cwd, env)

resolveProjectJournalPath(cwd, env) == resolveJournalPath(JournalSubdirectory, TRUE, cwd, env)

(***************************************************************************)
(* SpecPaths: the resolvers called in one environment                      *)
(***************************************************************************)
HomeDirectory == <<"home", "u">>

WorkingDirectories ==
    {CwdThrows} \cup
    {Directory(d) : d \in SystemDirectories \cup
                          {<<"usr", "local">>, HomeDirectory, <<"home", "u", "app">>, <<"tmp">>}}

Environments ==
    [HOME : {Unset, EmptyValue, Directory(HomeDirectory)},
     USERPROFILE : {Unset, Directory(<<"C:", "Users", "u">>)},
     TEMP : {Unset, Directory(<<"var", "tmp">>)},
     TMP : {Unset, Directory(<<"var", "tmp2">>)}]

Subdirectories == {JournalSubdirectory, "notes"}

ResolvePaths(cwd, env, subdirectory, includeCurrentDirectory) ==
    /\ op.name = "none"
    /\ op' = [name |-> "resolve", cwd |-> cwd, env |-> env, subdirectory |-> subdirectory,
              includeCurrentDirectory |-> includeCurrentDirectory,
              result |-> resolveJournalPath(subdirectory, includeCurrentDirectory, cwd, env),
              userPath |-> resolveUserJournalPath(cwd, env),
              projectPath |-> resolveProjectJournalPath(cwd, env)]
    /\ UNCHANGED diskVars

NextPaths ==
    \E cwd \in WorkingDirectories, env \in Environments, subdirectory \in Subdirectories,
       includeCurrentDirectory \in BOOLEAN :
        ResolvePaths(cwd, env, subdirectory, includeCurrentDirectory) /\ UNCHANGED engineVars

SpecPaths == InitEmbed /\ [][NextPaths]_vars

(***************************************************************************)
(* C1: however many generateEmbedding calls are issued before the model is *)
(* ready, the loader runs at most once for them: every loader invocation   *)
(* but the first follows a failed one, every caller that waits for the     *)
(* model waits for the one initialization in flight, and once the model is *)
(* loaded no call invokes the loader again.                                *)
(***************************************************************************)
C1_SingleInitialization ==
    /\ loadCalls <= loadFailures + 1
    /\ \A c \in Callers : pc[c] = "awaitInit" => (initPromise = "pending" /\ awaited[c] = loadCalls)
    /\ extractor => loadCalls = loadFailures + 1

C1_Witness ==
    /\ extractor
    /\ loadCalls = 1
    /\ \A c \in Callers : pc[c] = "infer" /\ awaited[c] = 1

(***************************************************************************)
(* C2: when the loader fails every caller awaiting it fails; the failure   *)
(* is not kept, so a call issued afterwards (model still not loaded, no    *)
(* initialization in flight) invokes the loader again, and a caller whose  *)
(* awaited initialization succeeds goes on to the inference.               *)
(***************************************************************************)
C2_FailureNotCached ==
    [][ /\ (loadFailures' = loadFailures + 1) =>
              \A c \in Callers : pc[c] = "awaitInit" => pc'[c] = "failed"
        /\ \A c \in Callers :
              (pc[c] = "idle" /\ pc'[c] # "idle" /\ ~extractor /\ loadFailures = loadCalls)
                 => (loadCalls' = loadCalls + 1 /\ pc'[c] = "awaitInit")
        /\ (extractor' /\ ~extractor) =>
              \A c \in Callers : pc[c] = "awaitInit" => pc'[c] = "infer"
      ]_vars

C2_Witness ==
    /\ loadFailures >= 1
    /\ \E c \in Callers : pc[c] = "done" /\ awaited[c] = loadFailures + 1 /\ awaited[c] >= 2

NormalizedText(p) == extractSearchableText(files[p]).text

(***************************************************************************)
(* C3: when generateMissingEmbeddings runs twice in succession with no     *)
(* write in between (and nothing fails in either run), the second run      *)
(* returns 0 and leaves every file as it was.                              *)
(***************************************************************************)
C3_SecondReconcileCreatesNothing ==
    [][ (/\ op.name = "reconcile" /\ op.failed = {}
         /\ op'.name = "reconcile" /\ op'.failed = {})
        => (op'.count = 0 /\ files' = files) ]_vars

(***************************************************************************)
(* C4: the number generateMissingEmbeddings returns is the number of       *)
(* sidecars that run created; a note skipped for its empty text, or whose  *)
(* embedding or save failed, is not counted.                               *)
(***************************************************************************)
C4_CountIsCreated ==
    op.name = "reconcile" => op.count = Cardinality(op.created)

(***************************************************************************)
(* C5: a failure on one note during generateMissingEmbeddings (reading it, *)
(* embedding it, saving its sidecar) skips that note only: every other     *)
(* note that lacked a sidecar, in either root, is processed in that run,   *)
(* so it has its sidecar afterwards unless its text is empty.              *)
(***************************************************************************)
C5_FailureSkipsOnlyThatNote ==
    op.name = "reconcile" =>
        \A p \in op.missing :
            ((\A x \in op.failed : x[1] # p) /\ NormalizedText(p) # <<>>)
                => EmbeddingPath(p) \in DOMAIN files

(***************************************************************************)
(* C6: after a generateMissingEmbeddings run in which nothing failed,      *)
(* every note with non-empty normalized text in a YYYY-MM-DD directory of  *)
(* either root has a sidecar, also a note whose embedding failed when it   *)
(* was written.                                                            *)
(***************************************************************************)
C6_ReconcileHeals ==
    (op.name = "reconcile" /\ op.failed = {}) =>
        \A p \in MdFiles(files) :
            (/\ p.root \in {projectJournalPath, userJournalPath}
             /\ IsDateDir(p.dir)
             /\ NormalizedText(p) # <<>>)
                => EmbeddingPath(p) \in DOMAIN files

C6_Witness ==
    /\ op.name = "reconcile"
    /\ op.failed = {}
    /\ \E s \in op.created :
          /\ files[NotePath(s)].timestamp # NoFrontmatter
          /\ s.root = userJournalPath
    /\ \E p \in MdFiles(files) : ~IsDateDir(p.dir) /\ EmbeddingPath(p) \notin DOMAIN files

(***************************************************************************)
(* C7: after any sequence of writeEntry, writeThoughts and                 *)
(* generateMissingEmbeddings, a note whose normalized text is empty has no *)
(* sidecar.                                                                *)
(***************************************************************************)
C7_NoRecordForEmptyNote ==
    \A p \in MdFiles(files) :
        NormalizedText(p) = <<>> => EmbeddingPath(p) \notin DOMAIN files

(***************************************************************************)
(* Properties of search and listRecent                                     *)
(***************************************************************************)
IsQuery == op.name \in {"search", "listRecent"}

SelectedTypes(type) == IF type = "both" THEN {"project", "user"} ELSE {type}

\* the disk without the sidecars that are not well-formed records
WellFormedOnly(fs) ==
    [p \in {x \in DOMAIN fs : fs[x].kind \in {"record", "note"}} |-> fs[p]]

InDomainOf(fs) == [order \in {op.orders[1], op.orders[2]} |->
                      LET Kept(p) == p \in DOMAIN fs IN SelectSeq(order, Kept)]

(***************************************************************************)
(* C8: with sidecars on disk that are not well-formed records (text that   *)
(* does not parse, or JSON without the fields of a record), search and     *)
(* listRecent answer as if only the well-formed sidecars existed: they do  *)
(* not fail and return what they return without the malformed ones.        *)
(***************************************************************************)
C8_MalformedSidecarsSkipped ==
    (IsQuery /\ op.query # <<"failed">>) =>
        LET clean == WellFormedOnly(files)
            orders == <<InDomainOf(clean)[op.orders[1]], InDomainOf(clean)[op.orders[2]]>>
        IN  IF op.name = "search"
            THEN op.outcome = search(clean, dirs, op.query, op.options, orders)
            ELSE op.outcome \in listRecent(clean, dirs, op.options, orders)

(***************************************************************************)
(* C9: search returns the records of the selected store(s) that pass the   *)
(* section filter (some requested label is, ignoring case, a substring of  *)
(* some section of the record) and the date range, and whose cosine score  *)
(* against the query vector is at least minScore, in descending order of   *)
(* score, cut to the first limit entries (limit >= 0).                     *)
(***************************************************************************)
\* the entries search has to rank: <<type, sidecar>> for every sidecar of a selected root
Candidates ==
    {c \in SelectedTypes(op.options.type) \X (DOMAIN files) :
        LET f == c[2]
            d == files[f]
        IN  /\ f.ext = "embedding"
            /\ f.root = RootOf(c[1])
            /\ IsDateDir(f.dir)
            /\ d.kind = "record"
            /\ (op.options.sections # NoSections /\ op.options.sections # <<>>) =>
                  \E want \in {op.options.sections[i] : i \in 1..Len(op.options.sections)},
                     has \in {d.sections[i] : i \in 1..Len(d.sections)} :
                        includes(toLowerCase(Chars(has)), toLowerCase(Chars(want)))
            /\ op.options.dateRange.start # Null => d.timestamp >= op.options.dateRange.start
            /\ op.options.dateRange.end # Null => d.timestamp <= op.options.dateRange.end
            /\ cosineSimilarity(op.query, d.embedding) >= op.options.minScore}

ScoreOf(c) == cosineSimilarity(op.query, files[c[2]].embedding)

C9_SearchRanking ==
    (op.name = "search" /\ op.outcome.ok /\ op.options.limit >= 0) =>
        LET R == op.outcome.results
            n == Len(R)
            Entry(i) == <<R[i].type, R[i].file>>
        IN  /\ \A i \in 1..n :
                  /\ Entry(i) \in Candidates
                  /\ R[i].score = ScoreOf(Entry(i))
                  /\ R[i].path = files[R[i].file].path
                  /\ R[i].text = files[R[i].file].text
                  /\ R[i].sections = files[R[i].file].sections
                  /\ R[i].timestamp = files[R[i].file].timestamp
            /\ \A i, j \in 1..n : i # j => Entry(i) # Entry(j)
            /\ n = IF op.options.limit < Cardinality(Candidates)
                   THEN op.options.limit ELSE Cardinality(Candidates)
            /\ \A i, j \in 1..n : i < j => R[i].score >= R[j].score
            /\ \A c \in Candidates :
                  (\A i \in 1..n : Entry(i) # c) => \A i \in 1..n : R[i].score >= ScoreOf(c)

C9_Witness ==
    /\ op.name = "search" /\ op.outcome.ok
    /\ op.options.limit = 1
    /\ op.options.sections = <<"feelings">>
    /\ Len(op.outcome.results) = 1
    /\ Cardinality(Candidates) = 2
    /\ \E c \in Candidates : ScoreOf(c) < op.outcome.results[1].score
    /\ op.outcome.results[1].file # op.orders[1][1]

(***************************************************************************)
(* C10: with type 'project' (resp. 'user') every result of search and of   *)
(* listRecent was loaded from the project (resp. user) root and carries    *)
(* that type, whatever the other store holds; the type of a result is that *)
(* of the root its sidecar was loaded from, not one the sidecar states.    *)
(***************************************************************************)
C10_TypeFromRoot ==
    (IsQuery /\ op.outcome.ok) =>
        \A i \in 1..Len(op.outcome.results) :
            LET r == op.outcome.results[i]
            IN  /\ r.type \in SelectedTypes(op.options.type)
                /\ r.file.root = RootOf(r.type)
                /\ r.file \in DatedSidecars(files, RootOf(r.type))

C10_Witness ==
    /\ op.name = "search" /\ op.outcome.ok
    /\ op.options.type = "project"
    /\ projectJournalPath # userJournalPath
    /\ Len(op.outcome.results) = 1
    /\ files[op.outcome.results[1].file].type = "user"
    /\ op.outcome.results[1].type = "project"
    /\ \E f \in DatedSidecars(files, userJournalPath) :
          /\ files[f].kind = "record"
          /\ ~DimensionMismatch(op.query, files[f].embedding)
          /\ cosineSimilarity(op.query, files[f].embedding) > op.outcome.results[1].score

(***************************************************************************)
(* C11: when the query embedding cannot be produced, search fails as a     *)
(* whole: it returns no result list, not even a partial one, and the       *)
(* caller of search_journal gets exactly one error.                        *)
(***************************************************************************)
C11_EmbeddingFailureFailsSearch ==
    (op.name = "search" /\ op.query = <<"failed">>) =>
        /\ ~op.outcome.ok
        /\ op.outcome.error = "embedding"
        /\ op.outcome.results = <<>>
        /\ op.response.isError
        /\ op.response.entries = 0

C11_Witness ==
    /\ op.name = "search" /\ op.query = <<"failed">>
    /\ ~op.outcome.ok
    /\ \E f \in DatedSidecars(files, projectJournalPath) : files[f].kind = "record"

\* the disk without the records whose vector has another length than the query's
WithoutMismatch(fs, q) ==
    [p \in {x \in DOMAIN fs : ~(fs[x].kind = "record" /\ DimensionMismatch(q, fs[x].embedding))}
        |-> fs[p]]

\* every sidecar of the selected roots holds a record or text that does not parse
SelectedWellFormed ==
    \A t \in SelectedTypes(op.options.type) :
        \A f \in DatedSidecars(files, RootOf(t)) : files[f].kind \in {"record", "garbage"}

(***************************************************************************)
(* C12: a record whose vector has another length than the query vector     *)
(* only loses its own comparison: search answers with the ranking of the   *)
(* other candidates, as if that record were not there.                     *)
(***************************************************************************)
C12_MismatchDiscarded ==
    (op.name = "search" /\ op.query # <<"failed">> /\ SelectedWellFormed) =>
        LET clean == WithoutMismatch(files, op.query)
            Kept(p) == p \in DOMAIN clean
            orders == <<SelectSeq(op.orders[1], Kept), SelectSeq(op.orders[2], Kept)>>
        IN  op.outcome = search(clean, dirs, op.query, op.options, orders)

\* the entries listRecent has to order: <<type, sidecar>> for every record of a
\* selected root that is in the date range
RecentCandidates ==
    {c \in SelectedTypes(op.options.type) \X (DOMAIN files) :
        LET f == c[2]
            d == files[f]
        IN  /\ f.ext = "embedding"
            /\ f.root = RootOf(c[1])
            /\ IsDateDir(f.dir)
            /\ d.kind = "record"
            /\ op.options.dateRange.start # Null => d.timestamp >= op.options.dateRange.start
            /\ op.options.dateRange.end # Null => d.timestamp <= op.options.dateRange.end}

(***************************************************************************)
(* C13: listRecent returns, of the records of the selected store(s) that   *)
(* are in the date range, the limit ones with the greatest timestamps, in  *)
(* descending order of timestamp, each with score 1; minScore and the      *)
(* section filter change nothing. Stated for stores whose sidecars are     *)
(* records or unparseable text (the other case is C8).                     *)
(***************************************************************************)
C13_ListRecentOrder ==
    (op.name = "listRecent" /\ SelectedWellFormed /\ op.options.limit >= 0) =>
        LET R == op.outcome.results
            n == Len(R)
            Entry(i) == <<R[i].type, R[i].file>>
        IN  /\ op.outcome.ok
            /\ \A i \in 1..n :
                  /\ Entry(i) \in RecentCandidates
                  /\ R[i].score = ScoreScale
                  /\ R[i].timestamp = files[R[i].file].timestamp
                  /\ R[i].path = files[R[i].file].path
                  /\ R[i].text = files[R[i].file].text
                  /\ R[i].sections = files[R[i].file].sections
            /\ \A i, j \in 1..n : i # j => Entry(i) # Entry(j)
            /\ n = IF op.options.limit < Cardinality(RecentCandidates)
                   THEN op.options.limit ELSE Cardinality(RecentCandidates)
            /\ \A i, j \in 1..n : i < j => R[i].timestamp >= R[j].timestamp
            /\ \A c \in RecentCandidates :
                  (\A i \in 1..n : Entry(i) # c) =>
                      \A i \in 1..n : R[i].timestamp >= files[c[2]].timestamp
            /\ op.outcome \in listRecent(files, dirs,
                                  [op.options EXCEPT !.minScore = DefaultMinScore,
                                                     !.sections = NoSections],
                                  op.orders)

\* limit 1 of two records; the later one is returned though it was listed last,
\* has no section of the filter and a minScore above 1 was given
C13_Witness ==
    /\ op.name = "listRecent" /\ op.outcome.ok /\ SelectedWellFormed
    /\ op.options.limit = 1
    /\ op.options.sections = <<"feelings">>
    /\ Cardinality(RecentCandidates) = 2
    /\ Len(op.outcome.results) = 1
    /\ \E c \in RecentCandidates : files[c[2]].timestamp < op.outcome.results[1].timestamp
    /\ Len(op.orders[1]) = 2
    /\ op.outcome.results[1].file = op.orders[1][2]
    /\ op.outcome.results[1].sections = <<"Project Notes", "Technical Insights">>

IsWrite(o) == o.name \in {"writeEntry", "writeThoughts"}

(***************************************************************************)
(* C14: a writeEntry or writeThoughts call writes each of its notes at a   *)
(* path no note had before: every note that was on disk is still there     *)
(* with the content it had, so a write never replaces an earlier note.     *)
(***************************************************************************)
C14_WritesNeverOverwrite ==
    [][(IsWrite(op') /\ files' # files) =>
          \A p \in MdFiles(files) : p \in DOMAIN files' /\ files'[p] = files[p]]_vars

(***************************************************************************)
(* C15: every sidecar the system created lies in the directory of its note *)
(* under the note's base name with the sidecar extension, its path field   *)
(* is the path of that note, and a reconcile run creates sidecars only at  *)
(* that place of notes it found without one.                               *)
(***************************************************************************)
C15_SidecarBesideNote ==
    /\ \A p \in EmbeddingFiles(files) :
          LET note == files[p].path
          IN  /\ files[p].kind = "record"
              /\ note.ext = "md"
              /\ note.root = p.root /\ note.dir = p.dir /\ note.base = p.base
              /\ note \in MdFiles(files)
              /\ EmbeddingPath(note) = p
    /\ op.name = "reconcile" =>
          /\ op.created \subseteq {EmbeddingPath(n) : n \in op.missing}
          /\ \A n \in op.missing : n \in MdFiles(files) /\ n.ext = "md"

\* a reconcile run has created a sidecar while another one, written with its
\* note, was there already
C15_Witness ==
    /\ op.name = "reconcile"
    /\ op.created # {}
    /\ \E p \in EmbeddingFiles(files) : p \notin op.created

(***************************************************************************)
(* C16: a reconcile run leaves every note and every sidecar that existed   *)
(* as it was; the only files it creates are sidecars of notes that had     *)
(* none.                                                                   *)
(***************************************************************************)
C16_ReconcileOnlyAddsSidecars ==
    [][(op'.name = "reconcile" /\ <<files, op>> # <<files', op'>>) =>
          /\ \A p \in DOMAIN files : p \in DOMAIN files' /\ files'[p] = files[p]
          /\ \A p \in (DOMAIN files') \ (DOMAIN files) :
                /\ p.ext = "embedding"
                /\ NotePath(p) \in MissingEmbeddings(files)
          /\ dirs' = dirs]_vars

\* a run that created a sidecar on a disk that held another note with its sidecar
C16_Witness ==
    /\ op.name = "reconcile"
    /\ op.created # {}
    /\ \E n \in MdFiles(files) : n \notin op.missing /\ EmbeddingPath(n) \in DOMAIN files

(***************************************************************************)
(* C17: generateMissingEmbeddings never rejects: whatever fails while it   *)
(* reads, embeds or saves, and whichever root is missing, it returns a     *)
(* count; the server then connects its transport.                          *)
(***************************************************************************)
C17_ReconcileNeverRejects ==
    op.name = "reconcile" =>
        /\ ~op.rejected
        /\ op.count \in Nat
        /\ op.startup = "connected"

\* a run in which reading a note failed in one root, with the other root missing
C17_Witness ==
    /\ op.name = "reconcile"
    /\ \E x \in op.failed : x[2] = "read"
    /\ \E root \in {projectJournalPath, userJournalPath} : <<root>> \notin dirs
    /\ ~op.rejected

(***************************************************************************)
(* C18: a search or listRecent whose loads interleave with writes does not *)
(* fail, every result it returns is a record whose sidecar is whole on     *)
(* disk, with that record's fields, and a sidecar that was cut off when it *)
(* was read gives no result.                                               *)
(***************************************************************************)
C18_ScanUnderWrites ==
    op.name = "scanned" =>
        /\ op.outcome.ok
        /\ \A i \in 1..Len(op.outcome.results) :
              LET r == op.outcome.results[i]
              IN  /\ r.file \in DOMAIN files
                  /\ files[r.file].kind = "record"
                  /\ r.path = files[r.file].path
                  /\ r.text = files[r.file].text
                  /\ r.sections = files[r.file].sections
                  /\ r.timestamp = files[r.file].timestamp
                  /\ <<r.type, r.file>> \notin op.skipped

\* a scan that returned a record and passed over a sidecar that was being written
C18_Witness ==
    /\ op.name = "scanned"
    /\ op.outcome.ok
    /\ Len(op.outcome.results) > 0
    /\ op.skipped # {}

RootMissing(type) == <<RootOf(type)>> \notin dirs

\* what search or listRecent would answer when asked for one store only
AnswersOfType(type) ==
    IF op.name = "search"
    THEN {search(files, dirs, op.query, [op.options EXCEPT !.type = type], op.orders)}
    ELSE listRecent(files, dirs, [op.options EXCEPT !.type = type], op.orders)

(***************************************************************************)
(* C19: a store root that does not exist counts as a store without         *)
(* records and raises no error: search and listRecent answer with the      *)
(* records of the other store (with none when both are missing), and       *)
(* generateMissingEmbeddings creates nothing under it and does not fail.   *)
(***************************************************************************)
C19_MissingRootIsEmpty ==
    /\ (IsQuery /\ op.query # <<"failed">>) =>
          \A t \in SelectedTypes(op.options.type) :
              RootMissing(t) =>
                  /\ op.outcome.ok
                  /\ \A i \in 1..Len(op.outcome.results) : op.outcome.results[i].type # t
                  /\ op.options.type = "both" =>
                        op.outcome \in AnswersOfType(IF t = "user" THEN "project" ELSE "user")
                  /\ op.options.type = t => op.outcome.results = <<>>
    /\ op.name = "reconcile" =>
          \A root \in {projectJournalPath, userJournalPath} :
              <<root>> \notin dirs =>
                  /\ ~op.rejected
                  /\ \A p \in DOMAIN files : p.root # root

\* a search of both stores, the user root missing, that found a project record
C19_Witness ==
    /\ op.name = "search" /\ op.options.type = "both"
    /\ RootMissing("user") /\ ~RootMissing("project")
    /\ op.outcome.ok
    /\ Len(op.outcome.results) > 0

(***************************************************************************)
(* C20: readEntry(path) returns the content of the file when the path      *)
(* exists, null without an error when it does not, and fails with the      *)
(* error of any other I/O failure; it changes nothing on disk.             *)
(***************************************************************************)
C20_ReadEntry ==
    [][op'.name = "readEntry" =>
          /\ (op'.fault = "none" /\ op'.path \in DOMAIN files) =>
                (op'.outcome.ok /\ op'.outcome.value = files[op'.path])
          /\ (op'.fault = "none" /\ op'.path \notin DOMAIN files) =>
                (op'.outcome.ok /\ op'.outcome.value = NullContent)
          /\ op'.fault # "none" =>
                (~op'.outcome.ok /\ op'.outcome.error = op'.fault)
          /\ (files' = files /\ dirs' = dirs)]_vars

\* a read that failed with an error other than ENOENT, of a note that is there
C20_Witness ==
    /\ op.name = "readEntry"
    /\ op.fault = "EACCES"
    /\ op.path \in MdFiles(files)
    /\ ~op.outcome.ok

\* the positions the windows start at
WindowPositions(text, maxLength) ==
    {i \in 0..Len(text) : i % ExcerptStep = 0 /\ i + maxLength <= Len(text)}

\* the distinct words of the query
DistinctWords(query) ==
    LET words == split(toLowerCase(query)) IN {words[k] : k \in 1..Len(words)}

\* how many of the distinct words the window at position i holds
DistinctScore(text, query, maxLength, i) ==
    Cardinality({w \in DistinctWords(query) :
                    includes(StringSlice(toLowerCase(text), i, i + maxLength), w)})

\* the earliest of the windows with the greatest score (0 when the text is
\* shorter than one window)
BestWindow(text, query, maxLength) ==
    LET P == WindowPositions(text, maxLength)
    IN  IF P = {} THEN 0
        ELSE CHOOSE i \in P :
                \A j \in P :
                    /\ DistinctScore(text, query, maxLength, j) <= DistinctScore(text, query, maxLength, i)
                    /\ DistinctScore(text, query, maxLength, j) = DistinctScore(text, query, maxLength, i)
                          => i <= j

(***************************************************************************)
(* C21: for a non-empty query generateExcerpt returns the window of        *)
(* maxLength characters, among those starting at the step positions, that  *)
(* holds the most distinct lower-cased whitespace-split query words (the   *)
(* earliest such window on ties), with an ellipsis in front iff the window *)
(* does not start at 0 and one behind iff it does not reach the end of the *)
(* text; for an empty query it returns the first maxLength characters,     *)
(* with an ellipsis behind iff the text is longer.                         *)
(***************************************************************************)
C21_Excerpt ==
    op.name = "generateExcerpt" =>
        IF op.query = <<>>
        THEN op.excerpt = StringSlice(op.text, 0, op.maxLength)
                            \o (IF Len(op.text) > op.maxLength THEN Ellipsis ELSE <<>>)
        ELSE LET best == BestWindow(op.text, op.query, op.maxLength)
             IN  op.excerpt = (IF best # 0 THEN Ellipsis ELSE <<>>)
                                \o StringSlice(op.text, best, best + op.maxLength)
                                \o (IF best + op.maxLength < Len(op.text) THEN Ellipsis ELSE <<>>)

\* the section headings of a note
Headings(note) == {note.lines[i].v : i \in {j \in 1..Len(note.lines) : note.lines[j].k = "h"}}

UserCategories == {"feelings", "user_context", "technical_insights", "world_knowledge"}

\* a category of the store was given to the call
Supplied(thoughts, store) ==
    IF store = "project" THEN thoughts["project_notes"] # Undefined
    ELSE \E c \in UserCategories : thoughts[c] # Undefined

SuppliedRoots(thoughts) == {RootOf(store) : store \in {s \in {"project", "user"} : Supplied(thoughts, s)}}

FilesOfEntry(fs, note) ==
    {p \in DOMAIN fs : p.root = note.root /\ p.dir = note.dir /\ p.base = note.base}

(***************************************************************************)
(* C23: after a writeEntry call in which nothing failed, whatever the      *)
(* content (the empty string too), the day directory holds exactly two     *)
(* files for the entry: the .md note and its .embedding sidecar.           *)
(***************************************************************************)
C23_TwoFilesPerEntry ==
    (op.name = "writeEntry" /\ op.faults = {}) =>
        \A note \in op.paths :
            FilesOfEntry(files, note) = {note, EmbeddingPath(note)}

\* the labels writeThoughts gives the sections of the categories asked for
WantedLabels(sections) == {SectionLabel(sections[i]) : i \in 1..Len(sections)}

\* the sidecars of the selected roots whose record holds a section of one of
\* the categories and scores at least minScore
RecordsOfCategories ==
    {f \in UNION {DatedSidecars(files, RootOf(t)) : t \in SelectedTypes(op.options.type)} :
        /\ files[f].kind = "record"
        /\ \E i \in 1..Len(files[f].sections) :
              files[f].sections[i] \in WantedLabels(op.options.sections)
        /\ cosineSimilarity(op.query, files[f].embedding) >= op.options.minScore}

(***************************************************************************)
(* C24: a search whose sections option holds category names of the tool    *)
(* ('feelings', 'technical_insights') returns the records that hold the    *)
(* section writeThoughts writes for one of these categories ('Feelings',   *)
(* 'Technical Insights') and no other record.                              *)
(***************************************************************************)
C24_CategoryFilter ==
    (op.name = "search" /\ op.options.sections \in CategoryFilters) =>
        /\ op.outcome.ok
        /\ {op.outcome.results[i].file : i \in 1..Len(op.outcome.results)} = RecordsOfCategories

(***************************************************************************)
(* C25: the timestamp of a sidecar is the creation instant, in             *)
(* milliseconds, of its note, whether the sidecar was saved when the note  *)
(* was written or by a later reconcile run: for every note the writer      *)
(* produced, the timestamp of its sidecar is the one in the note's header. *)
(***************************************************************************)
C25_SidecarTimestamp ==
    \A p \in EmbeddingFiles(files) :
        (/\ files[p].kind = "record"
         /\ NotePath(p) \in DOMAIN files
         /\ files[NotePath(p)].timestamp # NoFrontmatter)
            => files[p].timestamp = files[NotePath(p)].timestamp

\* the candidate the claim's order gives
FirstCandidate(subdirectory, includeCurrentDirectory, cwd, env) ==
    IF includeCurrentDirectory /\ cwd.k = "dir" /\ cwd.v \notin SystemDirectories
    THEN join(cwd.v, subdirectory)
    ELSE IF IsSet(env.HOME) THEN join(env.HOME.v, subdirectory)
    ELSE IF IsSet(env.USERPROFILE) THEN join(env.USERPROFILE.v, subdirectory)
    ELSE join(<<"tmp">>, subdirectory)

\* path lies under the directory: the directory's segments start the path
\* (every path is under '/', which is not counted)
Under(path, segments) ==
    /\ segments # <<>>
    /\ Len(segments) <= Len(path)
    /\ SubSeq(path, 1, Len(segments)) = segments

CwdExcluded(cwd) == cwd.k # "dir" \/ cwd.v \in SystemDirectories

(***************************************************************************)
(* C26 as stated: resolveJournalPath returns the first available candidate *)
(* in the order working directory (when requested and not a system         *)
(* directory), HOME, USERPROFILE, /tmp; resolveUserJournalPath never       *)
(* returns a path under the working directory; both resolvers agree when   *)
(* the working directory is excluded.                                      *)
(***************************************************************************)
C26_Original ==
    op.name = "resolve" =>
        /\ op.result = FirstCandidate(op.subdirectory, op.includeCurrentDirectory, op.cwd, op.env)
        /\ op.cwd.k = "dir" => ~Under(op.userPath, op.cwd.v)
        /\ CwdExcluded(op.cwd) => op.userPath = op.projectPath

(***************************************************************************)
(* C26: resolveJournalPath returns the first available candidate in the    *)
(* order working directory (when requested and not a system directory),    *)
(* HOME, USERPROFILE, /tmp; resolveUserJournalPath never takes the         *)
(* candidate of the working directory: its result is the HOME, USERPROFILE *)
(* or /tmp candidate and is the same whatever the working directory is;    *)
(* both resolvers agree when the working directory is excluded.            *)
(***************************************************************************)
C26_ResolveOrder ==
    op.name = "resolve" =>
        /\ op.result = FirstCandidate(op.subdirectory, op.includeCurrentDirectory, op.cwd, op.env)
        /\ op.userPath = FirstCandidate(JournalSubdirectory, FALSE, CwdThrows, op.env)
        /\ \A cwd \in WorkingDirectories : resolveUserJournalPath(cwd, op.env) = op.userPath
        /\ CwdExcluded(op.cwd) => op.userPath = op.projectPath

\* the process runs in the home directory: the project path is the working
\* directory's candidate, and the user path is that same path
C26_Witness ==
    /\ op.name = "resolve"
    /\ op.cwd = Directory(HomeDirectory)
    /\ op.env.HOME = Directory(HomeDirectory)
    /\ op.includeCurrentDirectory
    /\ op.result = join(op.cwd.v, op.subdirectory)
    /\ op.userPath = op.projectPath
    /\ Under(op.userPath, op.cwd.v)

(***************************************************************************)
(* C27: when the embedding or the saving of the sidecar fails during       *)
(* writeEntry or writeThoughts, the call still completes without an error  *)
(* and every note of the call is on disk; the record of the note whose     *)
(* embedding failed is not saved, and nothing else is missing: the         *)
(* directories are there and no other file has changed.                    *)
(***************************************************************************)
C27_EmbeddingFailureKeepsNote ==
    [][(IsWrite(op') /\ op'.failed # {}) =>
          /\ op'.thrown = "none"
          /\ \A p \in op'.paths :
                /\ p \in DOMAIN files'
                /\ files'[p].kind = "note"
                /\ files'[p].timestamp = now'
                /\ {<<p.root>>, <<p.root, p.dir>>} \subseteq dirs'
          /\ \A f \in op'.failed :
                LET sidecar == EmbeddingPath(f[1])
                IN  \/ sidecar \notin DOMAIN files'
                    \/ sidecar \in DOMAIN files /\ files'[sidecar] = files[sidecar]
                    \/ files'[sidecar].text # extractSearchableText(f[2]).text
          /\ \A p \in DOMAIN files :
                NotePath(p) \notin op'.paths => (p \in DOMAIN files' /\ files'[p] = files[p])
      ]_vars

\* a writeThoughts call that wrote two notes; the embedding of one failed, and
\* that note is on disk without a sidecar while the other has its sidecar
C27_Witness ==
    /\ op.name = "writeThoughts"
    /\ Cardinality(op.paths) = 2
    /\ Cardinality(op.failed) = 1
    /\ \A f \in op.failed : f[1] \in DOMAIN files /\ EmbeddingPath(f[1]) \notin DOMAIN files
    /\ \E p \in op.paths : EmbeddingPath(p) \in DOMAIN files

\* the sidecars of the day directories of the two roots
StoredRecords ==
    DatedSidecars(files, projectJournalPath) \cup DatedSidecars(files, userJournalPath)

(***************************************************************************)
(* C28: read your writes. A write with non-empty text whose embedding      *)
(* succeeded leaves the sidecar of its note on disk; a later listRecent of *)
(* both stores, without date range and with a limit of at least the number *)
(* of stored records, returns for every such sidecar a result with the     *)
(* path of its note and the type of the store it lies in.                  *)
(***************************************************************************)
C28_ReadYourWrites ==
    (/\ op.name = "listRecent"
     /\ op.options.type = "both"
     /\ op.options.dateRange = NoRange
     /\ op.options.limit >= Cardinality(StoredRecords)) =>
        /\ op.outcome.ok
        /\ \A s \in StoredRecords :
              files[NotePath(s)].timestamp # NoFrontmatter =>
                  \E i \in 1..Len(op.outcome.results) :
                      /\ op.outcome.results[i].path = NotePath(s)
                      /\ RootOf(op.outcome.results[i].type) = s.root

(***************************************************************************)
(* C29: no result list of search or listRecent holds the same record       *)
(* twice: no two results have the same path, whether the project root and  *)
(* the user root are different directories or one and the same.            *)
(***************************************************************************)
C29_NoDuplicateResults ==
    (IsQuery /\ op.outcome.ok) =>
        \A i, j \in 1..Len(op.outcome.results) :
            i # j => op.outcome.results[i].path # op.outcome.results[j].path

(***************************************************************************)
(* C30: whenever process_thoughts answers 'Thoughts recorded               *)
(* successfully.' the call has written at least one note file; whenever it *)
(* rejects the call because no category was given, nothing on disk has     *)
(* changed.                                                                *)
(***************************************************************************)
C30_RecordedMeansWritten ==
    [][/\ (op'.name = "writeThoughts" /\ op'.response = ThoughtsRecorded) =>
             /\ op'.paths # {}
             /\ \A p \in op'.paths : p \in MdFiles(files')
       /\ op'.name = "process_thoughts" =>
             /\ op'.response = NoCategoryError
             /\ files' = files /\ dirs' = dirs
      ]_vars

=============================================================================
